---- MODULE Spec2Model ----
(***************************************************************************)
(* A model of the knowledge-base retrieval engine: the vector index        *)
(* adapter (core/knowledge_index.py), the keyword index                    *)
(* (core/knowledge_search_fts.py), the hybrid search orchestrator          *)
(* (core/knowledge_search.py), the embedding generator with its cache      *)
(* (core/embedding_generator.py) and the import command (cli.py).          *)
(*                                                                         *)
(* Text is a sequence of one-character strings.  A document is a record    *)
(* [content, source]; source <<>> stands for metadata without a "source"   *)
(* key (the code reads it with .get("source", "")).                        *)
(***************************************************************************)
EXTENDS Integers, Sequences, FiniteSets, TLC

\* ------------------------------------------------------------- bounds
\* Most documents a small import carries, and the most the indexes hold
\* besides the one large import.
MaxDocs == 3

\* Most embed calls of a run.
MaxCalls == 2

\* Longest of the texts the chunker is tried on one by one, and the largest
\* max_chars they are split with.
MaxTextLen == 5
MaxSplitChars == 3
MaxFileLen == 4
MaxChunkSize == 3
MaxContentLen == 3
MaxSent == 2

\* -------------------------------------------------- program constants
MaxQueryLen == 1000
SearchCeiling == 100
IndexCeiling == 100
PrefixLen == 50
Dim == 1024
MaxChars == 300
DefaultMaxFileSizeMb == 50
DefaultChunkSize == 1048576
Mebibyte == 1048576
TextFactor == 10

\* ------------------------------------------------------------ helpers
Min(a, b) == IF a < b THEN a ELSE b
Max(a, b) == IF a > b THEN a ELSE b
Rep(c, n) == [i \in 1..n |-> c]

\* Python's s[:n]: the first n elements, and for a negative n all but the
\* last -n.
PySliceTo(s, n) ==
    IF n >= 0 THEN SubSeq(s, 1, Min(n, Len(s)))
    ELSE SubSeq(s, 1, Max(0, Len(s) + n))

SeqsUpTo(S, n) == UNION {[1..k -> S] : k \in 0..n}

\* ---------------------------------------------------------- documents
DocX  == [content |-> Rep("x", 49), source |-> <<"s", "x">>]
DocY1 == [content |-> Rep("x", 50) \o <<"p">>, source |-> <<"s">>]
DocY2 == [content |-> Rep("x", 50) \o <<"q">>, source |-> <<"s">>]
DocZ  == [content |-> <<"h", "i">>, source |-> <<"s">>]
Docs == {DocX, DocY1, DocY2, DocZ}

\* The imports: every sequence of at most MaxDocs documents, and one large
\* import of more documents than either ceiling.
LargeBatch == [i \in 1..(IndexCeiling + 1) |-> DocZ]
Batches == (SeqsUpTo(Docs, MaxDocs) \ {<<>>}) \cup {LargeBatch}

Raise(e) == [kind |-> "raise", error |-> e, val |-> <<>>]
Ok(v) == [kind |-> "ok", error |-> "none", val |-> v]

\* ------------------------------------------------------------- state
VARIABLES
    collection,        \* the vector collection: sequence of [id, content, source]
    fts_rows,          \* knowledge_fts: sequence of [rowid, content, source]
    meta_rows,         \* knowledge_meta: sequence of [rowid, metadata]
    pc,                \* position of the call in progress ("idle": none)
    op,                \* the operation called
    query,             \* argument: the query text
    query_embedding,   \* argument: "None", "Empty" or an embedding
    limit_arg,         \* argument: the limit the caller passed
    use_hybrid,        \* argument
    limit,             \* the limit after clamping
    semantic_results,  \* local of _hybrid_search
    keyword_results,   \* local of _hybrid_search
    merged_results,    \* local of _hybrid_search
    result,            \* the list returned
    outcome,           \* "none", "returned" or "raised"
    error,             \* the exception that reached the caller
    semRaised,         \* the vector index raised in this search
    kwRaised,          \* the keyword attempt raised in this search
    kwIndexDown,       \* the keyword index would have raised for this query
    vecReq,            \* the limits requested from KnowledgeIndex.search
    kwReq,             \* the limits passed to _keyword_search
    ftsReq,            \* the limits KnowledgeSearchFTS.search was called with
    cache,             \* per generator: self.cache, cache key -> vector
    cache_file,        \* the file at cache_path: [state, data]
    inst,              \* per generator: how many times it was constructed
    gpc,               \* position of the embed call in progress
    cur_gen,           \* the generator the call in progress runs on
    cur_text,          \* argument of the call in progress
    chunks,            \* local of generate_async
    embeddings,        \* local of generate_async
    calls,             \* the requests this call made: [input, failed, answer]
    log,               \* the finished embed calls, oldest first
    batch_state,       \* generate_batch: "none", "running", "returned", "raised"
    batch_gen,         \* the generator generate_batch runs on
    batch_texts,       \* argument of generate_batch
    batch_out,         \* local of generate_batch: embeddings
    sp_state,          \* _split_text: "none", "called" or "returned"
    sp_text,           \* argument of _split_text
    sp_max,            \* argument of _split_text: max_chars
    sp_chunks,         \* the list _split_text returned
    fts_ret,           \* the last direct call on the keyword index and its result
    idx_ret,           \* the last direct call on the vector index and its result
    ingest,            \* the KnowledgeIngest instance: [max_file_size_mb, chunk_size]
    ing_ret,           \* the last import_file / import_text call and its result
    hl_ret,            \* the last row formatted by KnowledgeSearchFTS.search
    websocket,         \* GatewayClient.websocket: "None" or the socket held
    connected,         \* GatewayClient.connected
    link,              \* the connection behind the socket held: "none", "open", "closed"
    sent,              \* the payloads that went out on the wire
    gw_ret             \* the last GatewayClient call and its outcome

indexVars == <<collection, fts_rows, meta_rows>>
callVars == <<pc, op, query, query_embedding, limit_arg, use_hybrid, limit,
              semantic_results, keyword_results, merged_results, result,
              outcome, error, semRaised, kwRaised, kwIndexDown, vecReq, kwReq,
              ftsReq>>
batchVars == <<batch_state, batch_gen, batch_texts, batch_out>>
embVars == <<cache, cache_file, inst, gpc, cur_gen, cur_text, chunks,
             embeddings, calls, log, batchVars>>
splitVars == <<sp_state, sp_text, sp_max, sp_chunks>>
retVars == <<fts_ret, idx_ret>>
ingVars == <<ingest, ing_ret>>
hlVars == <<hl_ret>>
gwVars == <<websocket, connected, link, sent, gw_ret>>
vars == <<indexVars, callVars, embVars, splitVars, retVars, ingVars, hlVars, gwVars>>

\* What a command on the stores leaves alone, and what a call of the
\* generator leaves alone, and what a call of the chunker leaves alone.
notSearchVars == <<embVars, splitVars, retVars, ingVars, hlVars, gwVars>>
notEmbedVars == <<indexVars, callVars, splitVars, retVars, ingVars, hlVars, gwVars>>
notSplitVars == <<indexVars, callVars, embVars, retVars, ingVars, hlVars, gwVars>>
notStoreVars == <<callVars, embVars, splitVars, ingVars, hlVars, gwVars>>
notIngestVars == <<indexVars, callVars, embVars, splitVars, retVars, hlVars, gwVars>>
notHighlightVars == <<indexVars, callVars, embVars, splitVars, retVars, ingVars, gwVars>>
notGatewayVars == <<indexVars, callVars, embVars, splitVars, retVars, ingVars, hlVars>>

\* ------------------------------------- vector index (knowledge_index.py)
\* ids = [f"doc_{i}" for i in range(len(documents))]
BatchIds(n) == [i \in 1..n |-> i - 1]

IdsOf(coll) == {coll[i].id : i \in DOMAIN coll}

\* collection.add of the storage engine.  What the engine does with an id
\* it already holds depends on its version: it raises, it skips the
\* document, or it stores a second document under the id.  "fail" is the
\* engine being unreachable.
AddPolicies == {"fail", "raise", "skip", "dup"}
CollectionAdd(coll, ids, docs, policy) ==
    LET entries == [i \in DOMAIN docs |->
                      [id |-> ids[i], content |-> docs[i].content,
                       source |-> docs[i].source]]
        clash == \E i \in DOMAIN ids : ids[i] \in IdsOf(coll)
        fresh == SelectSeq(entries, LAMBDA e : e.id \notin IdsOf(coll))
    IN  IF policy = "fail" THEN Raise("IndexUnavailable")
        ELSE IF ~clash \/ policy = "dup" THEN Ok(coll \o entries)
        ELSE IF policy = "raise" THEN Raise("DuplicateID")
        ELSE Ok(coll \o fresh)

\* KnowledgeIndex.add_documents: [kind, error, val (the collection), count].
KnowledgeIndex_add_documents(coll, documents, policy) ==
    IF policy = "fail" THEN [Raise("IndexUnavailable") EXCEPT !.val = coll] @@ [count |-> 0]
    ELSE IF documents = <<>> THEN Ok(coll) @@ [count |-> 0]
    ELSE LET r == CollectionAdd(coll, BatchIds(Len(documents)), documents, policy)
         IN  IF r.kind = "raise" THEN [r EXCEPT !.val = coll] @@ [count |-> 0]
             ELSE r @@ [count |-> Len(documents)]

Reverse(s) == [i \in 1..Len(s) |-> s[Len(s) + 1 - i]]

\* collection.query(n_results = n): the n documents nearest to the query
\* embedding, nearest first.  The embedding model is a black box: the model
\* keeps the collection in the order of nearness to the query, and the
\* imports put the documents in every order.
CollectionQuery(coll, emb, n) == SubSeq(coll, 1, Max(0, Min(n, Len(coll))))

FormatResult(e) == [content |-> e.content, source |-> e.source, error |-> "none"]

\* KnowledgeIndex.search with max written for min in the clamp.
KnowledgeIndex_search_MaxForMin(coll, emb, lim, fail) ==
    IF fail THEN Raise("IndexUnavailable")
    ELSE LET found == CollectionQuery(coll, emb, Max(lim, IndexCeiling))
         IN  Ok([i \in DOMAIN found |-> FormatResult(found[i])])

\* KnowledgeIndex.search; fail: the engine cannot be initialised or queried.
KnowledgeIndex_search(coll, emb, lim, fail) ==
    IF fail THEN Raise("IndexUnavailable")
    ELSE LET n == Min(lim, IndexCeiling)
             found == CollectionQuery(coll, emb, n)
         IN  Ok([i \in DOMAIN found |-> FormatResult(found[i])])

\* --------------------------------- keyword index (knowledge_search_fts.py)
\* str.split(): the maximal runs of non-blank characters.
RECURSIVE SplitFrom(_, _, _)
SplitFrom(s, cur, acc) ==
    IF s = <<>> THEN (IF cur = <<>> THEN acc ELSE Append(acc, cur))
    ELSE IF Head(s) = " "
         THEN SplitFrom(Tail(s), <<>>, IF cur = <<>> THEN acc ELSE Append(acc, cur))
         ELSE SplitFrom(Tail(s), Append(cur, Head(s)), acc)
Split(s) == SplitFrom(s, <<>>, <<>>)

LowerChar(c) == CASE c = "H" -> "h" [] c = "I" -> "i"
                    [] c = "M" -> "m" [] c = "D" -> "d" [] OTHER -> c
Lower(s) == [i \in DOMAIN s |-> LowerChar(s[i])]

\* keyword.strip('.,!?;:...'): the punctuation taken off both ends.
Punctuation == {".", ",", "!", "?", ";", ":"}
RECURSIVE LStrip(_)
LStrip(s) == IF s # <<>> /\ Head(s) \in Punctuation THEN LStrip(Tail(s)) ELSE s
Strip(s) == Reverse(LStrip(Reverse(LStrip(s))))

\* pattern.sub(lambda m: f"**{m.group()}**", text) with re.IGNORECASE: the
\* non-overlapping matches, leftmost first.
RECURSIVE SubAll(_, _)
SubAll(text, kw) ==
    IF Len(text) < Len(kw) THEN text
    ELSE IF Lower(SubSeq(text, 1, Len(kw))) = Lower(kw)
         THEN <<"*", "*">> \o SubSeq(text, 1, Len(kw)) \o <<"*", "*">>
              \o SubAll(SubSeq(text, Len(kw) + 1, Len(text)), kw)
         ELSE <<Head(text)>> \o SubAll(Tail(text), kw)

\* KnowledgeSearchFTS._highlight_matches
RECURSIVE HighlightEach(_, _)
HighlightEach(text, keywords) ==
    IF keywords = <<>> THEN text
    ELSE LET clean_keyword == Strip(Head(keywords))
         IN  IF Len(clean_keyword) < 2 THEN HighlightEach(text, Tail(keywords))
             ELSE HighlightEach(SubAll(text, clean_keyword), Tail(keywords))
highlight_matches(text, q) == HighlightEach(text, Split(q))

\* knowledge_fts MATCH ?: the lexical engine matches a row when every query
\* token is a token of its content, letter case folded.
TokensOf(s) == {Lower(t) : t \in {Split(s)[i] : i \in DOMAIN Split(s)}}
FtsMatch(row, q) == TokensOf(q) # {} /\ TokensOf(q) \subseteq TokensOf(row.content)

\* cursor.lastrowid of the next insert into knowledge_fts.
MaxRowid(rows) ==
    IF rows = <<>> THEN 0
    ELSE CHOOSE m \in {rows[i].rowid : i \in DOMAIN rows} :
            \A i \in DOMAIN rows : rows[i].rowid <= m

\* KnowledgeSearchFTS.add_documents.  The insert of document failAt fails: in
\* knowledge_fts (failMode "fts", the document is skipped) or, after the
\* knowledge_fts row is in, in knowledge_meta (failMode "meta").  The commit
\* after the loop keeps whatever the loop executed; count counts the
\* documents whose two inserts both succeeded.
FTS_add_documents(rows, meta, documents, failAt, failMode) ==
    LET n == Len(documents)
        rowFails(i) == i = failAt /\ failMode = "fts"
        metaFails(i) == i = failAt /\ failMode = "meta"
        \* cursor.lastrowid after the insert of document i
        RowidOf(i) == MaxRowid(rows) + Cardinality({j \in 1..i : ~rowFails(j)})
        rowIdx == SelectSeq([i \in 1..n |-> i], LAMBDA i : ~rowFails(i))
        metaIdx == SelectSeq(rowIdx, LAMBDA i : ~metaFails(i))
    IN  [rows |-> rows \o [k \in DOMAIN rowIdx |->
                    [rowid |-> RowidOf(rowIdx[k]),
                     content |-> documents[rowIdx[k]].content,
                     source |-> documents[rowIdx[k]].source]],
         meta |-> meta \o [k \in DOMAIN metaIdx |->
                    [rowid |-> RowidOf(metaIdx[k]),
                     metadata |-> [source |-> documents[metaIdx[k]].source]]],
         count |-> Len(metaIdx)]

\* SELECT metadata FROM knowledge_meta WHERE rowid = ?, fetchone(); {} when
\* there is no such record.
MetaOf(meta, rowid) ==
    LET hits == SelectSeq(meta, LAMBDA m : m.rowid = rowid)
    IN  IF hits = <<>> THEN [source |-> <<>>] ELSE Head(hits).metadata

\* LIMIT ? of the lexical engine: a negative limit is no limit.
SqlLimit(rows, n) == IF n < 0 THEN rows ELSE SubSeq(rows, 1, Min(n, Len(rows)))

\* result["content"] of a row search returns: with highlight the content
\* goes through _highlight_matches.
ResultContent(content, q, highlight) ==
    IF highlight THEN highlight_matches(content, q) ELSE content

\* KnowledgeSearchFTS.search; fail: the engine raises (database unreachable,
\* or a query it cannot parse, such as the empty query).
FTS_search(rows, meta, q, lim, highlight, fail) ==
    IF fail \/ TokensOf(q) = {} THEN Raise("sqlite3.Error")
    ELSE LET found == SqlLimit(SelectSeq(rows, LAMBDA r : FtsMatch(r, q)), lim)
         IN  Ok([i \in DOMAIN found |->
                   [content |-> ResultContent(found[i].content, q, highlight),
                    source |-> found[i].source,
                    metadata |-> MetaOf(meta, found[i].rowid),
                    error |-> "none"]])

\* -------------------------- hybrid search orchestrator (knowledge_search.py)
Unavailable == <<"u", "n", "a", "v", "a", "i", "l", "a", "b", "l", "e">>

\* The result search() returns when an exception reaches its except clause.
Synthetic(e) == [content |-> Unavailable, source |-> <<>>, error |-> e]

\* The length check with >= written for >.
ValidateQueryOffByOne(q) == IF Len(q) >= MaxQueryLen THEN Raise("ValueError") ELSE Ok(q)

\* if len(query) > 1000: raise ValueError
ValidateQuery(q) == IF Len(q) > MaxQueryLen THEN Raise("ValueError") ELSE Ok(q)

\* limit = min(limit, 100)
ClampLimit(l) == Min(l, SearchCeiling)

\* `if query_embedding`: None and the empty list are false.
Truthy(emb) == emb \notin {"None", "Empty"}

\* The branch search() takes.
Mode(hybrid, emb) ==
    IF hybrid /\ Truthy(emb) THEN "hybrid"
    ELSE IF Truthy(emb) THEN "semantic"
    ELSE "keyword"

\* The number of results _hybrid_search asks of each index.
HalfLimit(l) == (l \div 2) + 1

\* KnowledgeSearch._semantic_search
semantic_search(coll, emb, lim, fail) == KnowledgeIndex_search(coll, emb, lim, fail)

\* KnowledgeSearch._keyword_search: logs a warning and returns [].
keyword_search(q, lim) == Ok(<<>>)

\* A try/except that puts [] in the place of a failed attempt.
OrEmpty(r) == IF r.kind = "raise" THEN <<>> ELSE r.val

\* doc_id = metadata.get("source", "") + str(content[:50])
DocKey(r) == r.source \o PySliceTo(r.content, PrefixLen)

\* The loop over semantic_results + keyword_results.
RECURSIVE DedupFrom(_, _, _)
DedupFrom(rs, seen_ids, merged) ==
    IF rs = <<>> THEN merged
    ELSE IF DocKey(Head(rs)) \in seen_ids
         THEN DedupFrom(Tail(rs), seen_ids, merged)
         ELSE DedupFrom(Tail(rs), seen_ids \cup {DocKey(Head(rs))},
                        Append(merged, Head(rs)))
\* The loop with merged_results.insert(0, result) written for append.
DedupNewestFirst(rs) == Reverse(DedupFrom(rs, {}, <<>>))

Dedup(rs) == DedupFrom(rs, {}, <<>>)

\* return merged_results[:limit]
Truncate(merged, l) == PySliceTo(merged, l)

\* search() without its except clause.
SearchGuardMissing(r) == r

\* The except clause of search(): any exception becomes the synthetic result.
SearchGuard(r) == IF r.kind = "raise" THEN Ok(<<Synthetic(r.error)>>) ELSE r

\* ------------------------- embedding generator (embedding_generator.py)
\* Text is a sequence of one-character strings; the three fullwidth marks of
\* the split pattern are written by their code points.
Delimiters == {"<U+3002>", "<U+FF01>", "<U+FF1F>", "\n"}

IsDelim(c) == c \in Delimiters

\* The positions where a run of delimiters or of other characters starts.
RunStarts(text) ==
    {i \in 1..Len(text) : i = 1 \/ IsDelim(text[i]) # IsDelim(text[i - 1])}

Kth(S, k) == CHOOSE x \in S : Cardinality({y \in S : y < x}) = k - 1

Runs(text) ==
    LET st == RunStarts(text)
        n == Cardinality(st)
    IN  [k \in 1..n |->
            SubSeq(text, Kth(st, k),
                   IF k = n THEN Len(text) ELSE Kth(st, k + 1) - 1)]

\* re.split without the capturing group: the delimiter runs are dropped.
ReSplitNoCapture(text) ==
    SelectSeq(Runs(text), LAMBDA r : ~IsDelim(r[1]))

\* re.split(r'([...]+)', text): the runs, text and delimiter runs alternating,
\* with an empty piece where the text starts or ends with a delimiter.
ReSplit(text) ==
    IF text = <<>> THEN << <<>> >>
    ELSE (IF IsDelim(text[1]) THEN << <<>> >> ELSE <<>>)
         \o Runs(text)
         \o (IF IsDelim(text[Len(text)]) THEN << <<>> >> ELSE <<>>)

RECURSIVE Join(_)
Join(pieces) ==
    IF pieces = <<>> THEN <<>> ELSE Head(pieces) \o Join(Tail(pieces))

\* The loop of _split_text with one character more allowed in a chunk.
RECURSIVE PackFromLoose(_, _, _, _, _, _)
PackFromLoose(sentences, i, chunkList, current_chunk, current_length, max_chars) ==
    IF i > Len(sentences)
    THEN IF current_chunk # <<>>
         THEN Append(chunkList, Join(current_chunk))
         ELSE chunkList
    ELSE LET sentence == sentences[i]
             sentence_length == Len(sentence)
         IN  IF current_length + sentence_length > max_chars + 1
                /\ current_chunk # <<>>
             THEN PackFromLoose(sentences, i + 1,
                                Append(chunkList, Join(current_chunk)),
                                <<sentence>>, sentence_length, max_chars)
             ELSE PackFromLoose(sentences, i + 1, chunkList,
                                Append(current_chunk, sentence),
                                current_length + sentence_length, max_chars)

\* The loop of _split_text over the sentences.
RECURSIVE PackFrom(_, _, _, _, _, _)
PackFrom(sentences, i, chunkList, current_chunk, current_length, max_chars) ==
    IF i > Len(sentences)
    THEN IF current_chunk # <<>>
         THEN Append(chunkList, Join(current_chunk))
         ELSE chunkList
    ELSE LET sentence == sentences[i]
             sentence_length == Len(sentence)
         IN  IF current_length + sentence_length > max_chars
                /\ current_chunk # <<>>
             THEN PackFrom(sentences, i + 1,
                           Append(chunkList, Join(current_chunk)),
                           <<sentence>>, sentence_length, max_chars)
             ELSE PackFrom(sentences, i + 1, chunkList,
                           Append(current_chunk, sentence),
                           current_length + sentence_length, max_chars)

\* _split_text cutting at every sentence boundary, whatever the length.
split_text_PerSentence(text, max_chars) == ReSplit(text)

\* _split_text returning the text whole, whatever the length.
split_text_Whole(text, max_chars) == <<text>>

split_text(text, max_chars) ==
    IF Len(text) <= max_chars THEN <<text>>
    ELSE LET packed == PackFrom(ReSplit(text), 1, <<>>, <<>>, 0, max_chars)
         IN  IF packed # <<>> THEN packed ELSE <<text>>

\* hashlib.sha256 of the text: one key per text.
get_cache_key(text) == <<"sha256", text>>

\* Numbers of a vector are fractions <<numerator, denominator>> in lowest
\* terms, so that the mean of the pooling is exact.
RECURSIVE GCD(_, _)
GCD(a, b) == IF b = 0 THEN a ELSE GCD(b, a % b)

Frac(n, d) == IF n = 0 THEN <<0, 1>> ELSE <<n \div GCD(n, d), d \div GCD(n, d)>>

FracAdd(x, y) == Frac(x[1] * y[2] + y[1] * x[2], x[2] * y[2])

FracDiv(x, n) == Frac(x[1], x[2] * n)

\* A vector whose coordinates are all the same number is written by its
\* length and that number: [dim |-> n, at |-> x] is [x] * n.
\* [0.0] * 1024
ZeroVector == [dim |-> Dim, at |-> <<0, 1>>]

\* What the service answers with when it answers: a vector of the model's
\* 1024 coordinates, different from the zero vector.
RemoteVectors == {[dim |-> Dim, at |-> <<1, 1>>]}

RemoteFailures == {"network", "timeout", "status", "malformed"}

Responses ==
    {[kind |-> "ok", vec |-> v] : v \in RemoteVectors}
    \cup {[kind |-> f, vec |-> <<>>] : f \in RemoteFailures}

\* The request of _generate_single_chunk and what it raises.
Post(text, resp) ==
    IF resp.kind = "ok" THEN Ok(resp.vec) ELSE Raise(resp.kind)

generate_single_chunk_NoFallback(text, resp) == Post(text, resp)

\* _generate_single_chunk: every exception becomes the zero vector.
generate_single_chunk(text, resp) ==
    IF Post(text, resp).kind = "raise" THEN Ok(ZeroVector) ELSE Post(text, resp)

RECURSIVE SumAt(_, _)
SumAt(embs, k) ==
    IF k = 0 THEN <<0, 1>> ELSE FracAdd(SumAt(embs, k - 1), embs[k].at)

\* The pooling without the division.
MeanPoolSum(embs) ==
    [dim |-> embs[1].dim, at |-> SumAt(embs, Len(embs))]

\* sum(emb[i] for emb in embeddings) / len(embeddings), for every i in
\* range(len(embeddings[0]))
MeanPool(embs) ==
    [dim |-> embs[1].dim, at |-> FracDiv(SumAt(embs, Len(embs)), Len(embs))]

CacheLookupAlwaysMiss(c, key) == Raise("miss")

\* cache_key in self.cache, and self.cache[cache_key]
CacheLookup(c, key) ==
    IF key \in DOMAIN c THEN Ok(c[key]) ELSE Raise("miss")

CachePut(c, key, vec) == (key :> vec) @@ c

EmptyCache == <<>>

SaveOutcomes == {"ok", "unwritten", "corrupt"}

\* __init__: the cache starts as the content of the file when it can be read.
load_cache(file) == IF file.state = "ok" THEN file.data ELSE EmptyCache

\* _save_cache that reads the file first and writes its entries back with
\* the map.
save_cache_Merging(file, c, how) ==
    CASE how = "ok" -> [state |-> "ok", data |-> c @@ load_cache(file)]
      [] how = "corrupt" -> [state |-> "corrupt", data |-> EmptyCache]
      [] OTHER -> file

\* _save_cache: the whole map replaces the file; a failure is swallowed and
\* leaves the file as it was or without a readable content.
save_cache(file, c, how) ==
    CASE how = "ok" -> [state |-> "ok", data |-> c]
      [] how = "corrupt" -> [state |-> "corrupt", data |-> EmptyCache]
      [] OTHER -> file

\* ------------------------------------------------------------- inputs
ShortQuery == <<"h", "i">>
Queries == {ShortQuery, Rep("h", MaxQueryLen), Rep("h", MaxQueryLen + 1)}
Limits == {-1, 0, 1, 2, 4, SearchCeiling, SearchCeiling + 1, 10000}

\* The searches tried: every mode and limit on the short query, and the two
\* queries at the length bound in hybrid and in keyword mode.
SearchInputs ==
    ({ShortQuery} \X {"None", "e1"} \X Limits \X BOOLEAN)
    \cup ({ShortQuery} \X {"Empty"} \X {4} \X BOOLEAN)
    \cup ((Queries \ {ShortQuery}) \X {"None", "e1"} \X {4} \X {TRUE})

NoCall ==
    /\ pc = "idle" /\ op = "none" /\ query = <<>> /\ query_embedding = "None"
    /\ limit_arg = 0 /\ use_hybrid = FALSE /\ limit = 0
    /\ semantic_results = <<>> /\ keyword_results = <<>> /\ merged_results = <<>>
    /\ result = <<>> /\ outcome = "none" /\ error = "none"
    /\ semRaised = FALSE /\ kwRaised = FALSE /\ kwIndexDown = FALSE
    /\ vecReq = <<>> /\ kwReq = <<>> /\ ftsReq = <<>>

\* The generators share one cache path.
Gens == {"g1", "g2"}

\* A text under the threshold, and one over it with a full stop in the middle.
ShortText == <<"a", "b">>
LongText == Rep("a", 200) \o <<"<U+3002>">> \o Rep("b", 200)
Texts == {ShortText, LongText}

NoEmbed ==
    /\ gpc = "idle" /\ cur_gen = "none" /\ cur_text = <<>>
    /\ chunks = <<>> /\ embeddings = <<>> /\ calls = <<>>

NoBatch ==
    /\ batch_state = "none" /\ batch_gen = "none"
    /\ batch_texts = <<>> /\ batch_out = <<>>

NoRet == [op |-> "none"]

\* KnowledgeIngest(): max_file_size_mb = 50, chunk_size = 1024 * 1024
DefaultIngest == [max_file_size_mb |-> DefaultMaxFileSizeMb, chunk_size |-> DefaultChunkSize]

NoSplit ==
    /\ sp_state = "none" /\ sp_text = <<>> /\ sp_max = 0 /\ sp_chunks = <<>>

\* Empty stores, no generator constructed, no call in progress.
Quiet ==
    /\ collection = <<>> /\ fts_rows = <<>> /\ meta_rows = <<>>
    /\ NoCall
    /\ cache = [g \in Gens |-> EmptyCache]
    /\ cache_file = [state |-> "absent", data |-> EmptyCache]
    /\ inst = [g \in Gens |-> 0]
    /\ NoEmbed
    /\ log = <<>>
    /\ NoBatch
    /\ fts_ret = NoRet
    /\ idx_ret = NoRet
    /\ ingest = DefaultIngest
    /\ ing_ret = NoRet
    /\ hl_ret = NoRet
    /\ websocket = "None"
    /\ connected = FALSE
    /\ link = "none"
    /\ sent = <<>>
    /\ gw_ret = NoRet

Init == Quiet /\ NoSplit

\* ------------------------------------------------------------ actions
\* cmd_import: the documents of one file go to the vector index and then to
\* the keyword index; an exception of the vector index ends the command
\* before the keyword index is written.
Import(batch, policy) ==
    /\ pc = "idle"
    /\ IF batch = LargeBatch
       THEN collection = <<>> /\ fts_rows = <<>>
       ELSE /\ Len(collection) + Len(batch) <= MaxDocs
            /\ Len(fts_rows) + Len(batch) <= MaxDocs
    /\ LET added == KnowledgeIndex_add_documents(collection, batch, policy)
           fts == FTS_add_documents(fts_rows, meta_rows, batch, 0, "fts")
       IN  IF added.kind = "raise"
           THEN UNCHANGED indexVars
           ELSE /\ collection' = added.val
                /\ fts_rows' = fts.rows
                /\ meta_rows' = fts.meta
    /\ UNCHANGED callVars
    /\ UNCHANGED notSearchVars

\* KnowledgeSearch.search up to the branch on the mode.
Search(q, emb, l, hybrid) ==
    /\ pc = "idle"
    /\ op' = "search"
    /\ query' = q /\ query_embedding' = emb /\ limit_arg' = l /\ use_hybrid' = hybrid
    /\ IF ValidateQuery(q).kind = "raise"
       THEN /\ pc' = "Done"
            /\ outcome' = "raised"
            /\ error' = ValidateQuery(q).error
            /\ UNCHANGED limit
       ELSE /\ limit' = ClampLimit(l)
            /\ pc' = CASE Mode(hybrid, emb) = "hybrid" -> "SemanticAttempt"
                       [] Mode(hybrid, emb) = "semantic" -> "SemanticOnly"
                       [] OTHER -> "KeywordOnly"
            /\ UNCHANGED <<outcome, error>>
    /\ UNCHANGED <<semantic_results, keyword_results, merged_results, result,
                   semRaised, kwRaised, kwIndexDown, vecReq, kwReq,
                   ftsReq>>
    /\ UNCHANGED indexVars
    /\ UNCHANGED notSearchVars

\* The semantic attempt without its except clause: the exception of the
\* vector index leaves _hybrid_search and ends the search.
SemanticAttempt_Propagates(fail) ==
    /\ pc = "SemanticAttempt"
    /\ semRaised' = fail
    /\ semantic_results' =
          OrEmpty(semantic_search(collection, query_embedding, HalfLimit(limit), fail))
    /\ vecReq' = Append(vecReq, HalfLimit(limit))
    /\ pc' = IF fail THEN "Done" ELSE "KeywordAttempt"
    /\ outcome' = IF fail THEN "returned" ELSE outcome
    /\ UNCHANGED <<op, query, query_embedding, limit_arg, use_hybrid, limit,
                   keyword_results, merged_results, result, error,
                   kwRaised, kwIndexDown, kwReq, ftsReq>>
    /\ UNCHANGED indexVars
    /\ UNCHANGED notSearchVars

\* _hybrid_search: the semantic attempt and its except clause.
SemanticAttempt(fail) ==
    /\ pc = "SemanticAttempt"
    /\ LET r == semantic_search(collection, query_embedding, HalfLimit(limit), fail)
       IN  /\ semantic_results' = OrEmpty(r)
           /\ semRaised' = (r.kind = "raise")
    /\ vecReq' = Append(vecReq, HalfLimit(limit))
    /\ pc' = "KeywordAttempt"
    /\ UNCHANGED <<op, query, query_embedding, limit_arg, use_hybrid, limit,
                   keyword_results, merged_results, result, outcome, error,
                   kwRaised, kwIndexDown, kwReq,
                   ftsReq>>
    /\ UNCHANGED indexVars
    /\ UNCHANGED notSearchVars

\* _hybrid_search: the keyword attempt and its except clause.  down records
\* whether the keyword index is failing while the attempt is made.
KeywordAttempt(down) ==
    /\ pc = "KeywordAttempt"
    /\ LET r == keyword_search(query, HalfLimit(limit))
       IN  /\ keyword_results' = OrEmpty(r)
           /\ kwRaised' = (r.kind = "raise")
    /\ kwIndexDown' = down
    /\ kwReq' = Append(kwReq, HalfLimit(limit))
    /\ UNCHANGED ftsReq
    /\ pc' = "Merge"
    /\ UNCHANGED <<op, query, query_embedding, limit_arg, use_hybrid, limit,
                   semantic_results, merged_results, result, outcome, error,
                   semRaised, vecReq>>
    /\ UNCHANGED indexVars
    /\ UNCHANGED notSearchVars

\* _hybrid_search: merge, deduplicate, truncate; then search() returns.
Merge ==
    /\ pc = "Merge"
    /\ merged_results' = Dedup(semantic_results \o keyword_results)
    /\ LET r == SearchGuard(Ok(Truncate(merged_results', limit)))
       IN  /\ result' = r.val
           /\ outcome' = IF r.kind = "raise" THEN "raised" ELSE "returned"
           /\ error' = r.error
    /\ pc' = "Done"
    /\ UNCHANGED <<op, query, query_embedding, limit_arg, use_hybrid, limit,
                   semantic_results, keyword_results, semRaised, kwRaised,
                   kwIndexDown, vecReq, kwReq,
                   ftsReq>>
    /\ UNCHANGED indexVars
    /\ UNCHANGED notSearchVars

\* search() in semantic-only mode.
SemanticOnly(fail) ==
    /\ pc = "SemanticOnly"
    /\ LET r == SearchGuard(semantic_search(collection, query_embedding, limit, fail))
       IN  /\ result' = r.val
           /\ outcome' = IF r.kind = "raise" THEN "raised" ELSE "returned"
           /\ error' = r.error
    /\ semRaised' = fail
    /\ vecReq' = Append(vecReq, limit)
    /\ pc' = "Done"
    /\ UNCHANGED <<op, query, query_embedding, limit_arg, use_hybrid, limit,
                   semantic_results, keyword_results, merged_results, kwRaised,
                   kwIndexDown, kwReq,
                   ftsReq>>
    /\ UNCHANGED indexVars
    /\ UNCHANGED notSearchVars

\* search() in keyword-only mode.
KeywordOnly ==
    /\ pc = "KeywordOnly"
    /\ LET r == SearchGuard(keyword_search(query, limit))
       IN  /\ result' = r.val
           /\ outcome' = IF r.kind = "raise" THEN "raised" ELSE "returned"
           /\ error' = r.error
           /\ kwRaised' = (keyword_search(query, limit).kind = "raise")
    /\ kwReq' = Append(kwReq, limit)
    /\ UNCHANGED ftsReq
    /\ pc' = "Done"
    /\ UNCHANGED <<op, query, query_embedding, limit_arg, use_hybrid, limit,
                   semantic_results, keyword_results, merged_results, semRaised,
                   kwIndexDown, vecReq>>
    /\ UNCHANGED indexVars
    /\ UNCHANGED notSearchVars

\* A direct call of KnowledgeIndex.search.
IndexSearchCall(emb, l, fail) ==
    /\ pc = "idle"
    /\ op' = "index_search"
    /\ query_embedding' = emb /\ limit_arg' = l
    /\ LET r == KnowledgeIndex_search(collection, emb, l, fail)
       IN  /\ result' = r.val
           /\ outcome' = IF r.kind = "raise" THEN "raised" ELSE "returned"
           /\ error' = r.error
    /\ pc' = "Done"
    /\ UNCHANGED <<query, use_hybrid, limit, semantic_results, keyword_results,
                   merged_results, semRaised, kwRaised, kwIndexDown, vecReq, kwReq,
                   ftsReq>>
    /\ UNCHANGED indexVars
    /\ UNCHANGED notSearchVars

\* cmd_search_fts: a direct call of KnowledgeSearchFTS.search, highlighting on.
FtsSearchCall(q, l, fail) ==
    /\ pc = "idle"
    /\ op' = "fts_search"
    /\ query' = q /\ limit_arg' = l
    /\ LET r == FTS_search(fts_rows, meta_rows, q, l, TRUE, fail)
       IN  /\ result' = r.val
           /\ outcome' = IF r.kind = "raise" THEN "raised" ELSE "returned"
           /\ error' = r.error
    /\ pc' = "Done"
    /\ ftsReq' = Append(ftsReq, l)
    /\ UNCHANGED <<query_embedding, use_hybrid, limit, semantic_results,
                   keyword_results, merged_results, semRaised, kwRaised,
                   kwIndexDown, vecReq, kwReq>>
    /\ UNCHANGED indexVars
    /\ UNCHANGED notSearchVars

\* The caller has its answer; the next command may start.
Return ==
    /\ pc = "Done"
    /\ pc' = "idle" /\ op' = "none" /\ query' = <<>> /\ query_embedding' = "None"
    /\ limit_arg' = 0 /\ use_hybrid' = FALSE /\ limit' = 0
    /\ semantic_results' = <<>> /\ keyword_results' = <<>> /\ merged_results' = <<>>
    /\ result' = <<>> /\ outcome' = "none" /\ error' = "none"
    /\ semRaised' = FALSE /\ kwRaised' = FALSE /\ kwIndexDown' = FALSE
    /\ vecReq' = <<>> /\ kwReq' = <<>> /\ ftsReq' = <<>>
    /\ UNCHANGED indexVars
    /\ UNCHANGED notSearchVars

\* The searches run on the stores one import leaves: every sequence of at
\* most MaxDocs documents, and the large one.
FreshStore == collection = <<>> /\ fts_rows = <<>> /\ meta_rows = <<>>

Next ==
    \/ \E batch \in Batches, policy \in AddPolicies :
            FreshStore /\ Import(batch, policy)
    \/ \E in \in SearchInputs : Search(in[1], in[2], in[3], in[4])
    \/ \E fail \in BOOLEAN : SemanticAttempt(fail)
    \/ \E down \in BOOLEAN : KeywordAttempt(down)
    \/ Merge
    \/ \E fail \in BOOLEAN : SemanticOnly(fail)
    \/ KeywordOnly
    \/ \E l \in Limits, fail \in BOOLEAN : IndexSearchCall("e1", l, fail)
    \/ \E l \in Limits, fail \in BOOLEAN : FtsSearchCall(ShortQuery, l, fail)
    \/ Return

Spec == Init /\ [][Next]_vars

\* ------------------------------------------------- claims on the search
HybridDone ==
    /\ pc = "Done" /\ op = "search" /\ outcome = "returned"
    /\ Mode(use_hybrid, query_embedding) = "hybrid"

IsSynthetic(r) == r.content = Unavailable /\ r.error # "none"

\* C1: in a hybrid search, when the vector index raises while the keyword
\* index works and holds at least one document matching the query, search
\* returns a non-empty list made only of keyword-index results.
C1_KeywordResultsWhenVectorFails ==
    (/\ HybridDone
     /\ semRaised /\ ~kwRaised /\ ~kwIndexDown
     /\ \E j \in DOMAIN fts_rows : FtsMatch(fts_rows[j], query))
    => /\ result # <<>>
       /\ \A i \in DOMAIN result :
            \E j \in DOMAIN fts_rows :
                /\ FtsMatch(fts_rows[j], query)
                /\ result[i].source = fts_rows[j].source

\* C2: in a hybrid search in which the semantic attempt and the keyword
\* attempt both fail, search does not raise and returns exactly one result,
\* the synthetic one that signals unavailability and carries the error.
C2_BothFailGivesSynthetic ==
    (/\ pc = "Done" /\ op = "search"
     /\ Len(query) <= MaxQueryLen
     /\ Mode(use_hybrid, query_embedding) = "hybrid"
     /\ semRaised /\ (kwRaised \/ kwIndexDown))
    => /\ outcome = "returned"
       /\ Len(result) = 1
       /\ IsSynthetic(result[1])

\* C3: a search with a query of at most 1000 characters returns a list in
\* every mode, whatever the indexes do; no exception reaches the caller, and
\* a synthetic result is the only element of the list it is in.
C3_SearchNeverRaises ==
    (pc = "Done" /\ op = "search" /\ Len(query) <= MaxQueryLen)
    => /\ outcome = "returned"
       /\ \A i \in DOMAIN result : IsSynthetic(result[i]) => Len(result) = 1

C3_Witness ==
    /\ pc = "Done" /\ op = "search"
    /\ Mode(use_hybrid, query_embedding) = "semantic"
    /\ semRaised
    /\ result = <<Synthetic("IndexUnavailable")>>

\* C4: search rejects a query exactly when it is longer than 1000
\* characters; the rejection is a ValueError that reaches the caller before
\* either index is asked, and no result list, synthetic or not, is returned.
C4_LongQueryRejected ==
    (pc = "Done" /\ op = "search")
    => /\ (Len(query) > MaxQueryLen) <=> (outcome = "raised" /\ error = "ValueError")
       /\ Len(query) > MaxQueryLen => (vecReq = <<>> /\ kwReq = <<>> /\ result = <<>>)

C4_Witness ==
    /\ pc = "Done" /\ op = "search"
    /\ Len(query) = MaxQueryLen + 1
    /\ outcome = "raised" /\ error = "ValueError"

\* C5: for a requested limit of at least 1, search returns at most
\* min(limit, 100) results in every mode.
C5_AtMostLimit ==
    (pc = "Done" /\ op = "search" /\ outcome = "returned" /\ limit_arg >= 1)
    => Len(result) <= Min(limit_arg, SearchCeiling)

C5_Witness ==
    /\ pc = "Done" /\ op = "search" /\ outcome = "returned"
    /\ limit_arg > SearchCeiling
    /\ Len(collection) > SearchCeiling
    /\ Len(result) = SearchCeiling

\* C6: asked for more than the ceiling of 100 results (10000, say), neither
\* index returns more than 100, however many documents match.
C6_IndexesClampLimit ==
    (/\ pc = "Done" /\ op \in {"index_search", "fts_search"}
     /\ outcome = "returned"
     /\ limit_arg > IndexCeiling)
    => Len(result) <= IndexCeiling

\* The list the merge loop runs over.
Concatenated == semantic_results \o keyword_results

SameSourceAndPrefix(a, b) ==
    /\ a.source = b.source
    /\ PySliceTo(a.content, PrefixLen) = PySliceTo(b.content, PrefixLen)

\* C7: of two results of the concatenated list with the same source and the
\* same first 50 characters of content the merge keeps exactly one, the
\* first in iteration order; and a result whose key differs from the keys of
\* all earlier results is kept.
C7_DedupKeepsExactlyTheFirst ==
    HybridDone =>
      LET c == Concatenated
      IN  /\ \A i, j \in DOMAIN c :
                (i < j /\ SameSourceAndPrefix(c[i], c[j])) =>
                  LET kept == {k \in DOMAIN merged_results :
                                  SameSourceAndPrefix(merged_results[k], c[i])}
                      first == CHOOSE m \in DOMAIN c :
                                  /\ SameSourceAndPrefix(c[m], c[i])
                                  /\ \A n \in 1..(m - 1) : ~SameSourceAndPrefix(c[n], c[i])
                  IN  /\ Cardinality(kept) = 1
                      /\ \A k \in kept : merged_results[k] = c[first]
          /\ \A i \in DOMAIN c :
                (\A j \in 1..(i - 1) : DocKey(c[j]) # DocKey(c[i]))
                => \E k \in DOMAIN merged_results : merged_results[k] = c[i]

\* The positions of the concatenated list whose key no earlier position has.
KeptIdx(c) == {i \in DOMAIN c : \A j \in 1..(i - 1) : DocKey(c[j]) # DocKey(c[i])}
NthKept(c, k) == CHOOSE i \in KeptIdx(c) : Cardinality({j \in KeptIdx(c) : j <= i}) = k

\* C8: the hybrid result is the first `limit` elements of the deduplicated
\* concatenation of the semantic results and the keyword results, in the
\* order of the concatenation.
C8_FirstLimitOfDeduplicated ==
    HybridDone =>
      /\ Len(result) = Min(Max(limit, 0), Cardinality(KeptIdx(Concatenated)))
      /\ \A k \in DOMAIN result : result[k] = Concatenated[NthKept(Concatenated, k)]

C8_Witness ==
    /\ HybridDone
    /\ Len(result) = 2
    /\ Len(Concatenated) = 3
    /\ result[2] = Concatenated[3]

\* ------------------------------------------ actions of the generator
\* SiliconFlowEmbeddingGenerator(cache_path=...): a process constructs the
\* generator, again after a restart.  A restart that would load the cache
\* the generator already holds is left out.
Construct(g) ==
    /\ gpc = "idle"
    /\ batch_state = "none"
    /\ inst[g] = 0 \/ cache[g] # load_cache(cache_file)
    /\ inst' = [inst EXCEPT ![g] = @ + 1]
    /\ cache' = [cache EXCEPT ![g] = load_cache(cache_file)]
    /\ UNCHANGED <<cache_file, gpc, cur_gen, cur_text, chunks, embeddings,
                   calls, log, batchVars>>
    /\ UNCHANGED notEmbedVars

LogEntry(g, text, kind, vec, posted) ==
    [gen |-> g, inst |-> inst[g], text |-> text, kind |-> kind, vec |-> vec,
     calls |-> posted]

\* embeddings.append(embedding) of generate_batch, at the front instead.
BatchPrepend(out, vec) == <<vec>> \o out

\* generate_batch: embeddings.append(embedding)
BatchAppend(out, vec) == Append(out, vec)

\* generate(text) returns vec, or raises: to the caller, or to the loop of
\* generate_batch when it made the call.
Deliver(kind, vec) ==
    /\ IF batch_state = "running"
       THEN IF kind = "raised"
            THEN batch_state' = "raised" /\ UNCHANGED batch_out
            ELSE batch_out' = BatchAppend(batch_out, vec) /\ UNCHANGED batch_state
       ELSE UNCHANGED <<batch_state, batch_out>>
    /\ UNCHANGED <<batch_gen, batch_texts>>

\* The next call of generate: any, or the one the loop of generate_batch
\* makes for its next text.
NextGenerate(g, text) ==
    \/ batch_state = "none"
    \/ /\ batch_state = "running"
       /\ g = batch_gen
       /\ Len(batch_out) < Len(batch_texts)
       /\ text = batch_texts[Len(batch_out) + 1]

\* generate_async up to its first request: the cache check, which returns
\* on a hit, and the split of the text.
GenerateStart(g, text) ==
    /\ gpc = "idle"
    /\ inst[g] > 0
    /\ Len(log) < MaxCalls
    /\ NextGenerate(g, text)
    /\ LET hit == CacheLookup(cache[g], get_cache_key(text))
       IN  IF hit.kind = "ok"
           THEN /\ log' = Append(log, LogEntry(g, text, "returned", hit.val, <<>>))
                /\ Deliver("returned", hit.val)
                /\ UNCHANGED <<gpc, cur_gen, cur_text, chunks, embeddings, calls>>
           ELSE /\ gpc' = "calling"
                /\ cur_gen' = g
                /\ cur_text' = text
                /\ chunks' = split_text(text, MaxChars)
                /\ embeddings' = <<>>
                /\ calls' = <<>>
                /\ UNCHANGED <<log, batchVars>>
    /\ UNCHANGED <<cache, cache_file, inst>>
    /\ UNCHANGED notEmbedVars

\* generate_async: the request for the next chunk, answered by resp.
ChunkCall(resp) ==
    /\ gpc = "calling"
    /\ Len(embeddings) < Len(chunks)
    /\ LET chunk == chunks[Len(embeddings) + 1]
           r == generate_single_chunk(chunk, resp)
           posted == Append(calls, [input |-> chunk,
                                    failed |-> resp.kind # "ok",
                                    answer |-> resp.vec])
       IN  /\ calls' = IF r.kind = "raise" THEN <<>> ELSE posted
           /\ IF r.kind = "raise"
              THEN /\ log' = Append(log, LogEntry(cur_gen, cur_text, "raised",
                                                  <<>>, posted))
                   /\ gpc' = "idle" /\ cur_gen' = "none" /\ cur_text' = <<>>
                   /\ chunks' = <<>> /\ embeddings' = <<>>
                   /\ Deliver("raised", <<>>)
              ELSE /\ embeddings' = Append(embeddings, r.val)
                   /\ UNCHANGED <<gpc, cur_gen, cur_text, chunks, log, batchVars>>
    /\ UNCHANGED <<cache, cache_file, inst>>
    /\ UNCHANGED notEmbedVars

\* generate_async after the last request: pooling, the cache entry, the
\* save of the cache, the return.
GenerateFinish(how) ==
    /\ gpc = "calling"
    /\ Len(embeddings) = Len(chunks)
    /\ LET embedding == IF Len(chunks) = 1 THEN embeddings[1]
                        ELSE MeanPool(embeddings)
           stored == CachePut(cache[cur_gen], get_cache_key(cur_text), embedding)
       IN  /\ cache' = [cache EXCEPT ![cur_gen] = stored]
           /\ cache_file' = save_cache(cache_file, stored, how)
           /\ log' = Append(log, LogEntry(cur_gen, cur_text, "returned",
                                          embedding, calls))
           /\ Deliver("returned", embedding)
    /\ gpc' = "idle" /\ cur_gen' = "none" /\ cur_text' = <<>>
    /\ chunks' = <<>> /\ embeddings' = <<>> /\ calls' = <<>>
    /\ UNCHANGED inst
    /\ UNCHANGED notEmbedVars

\* The lists of texts generate_batch is called with.
BatchInputs == SeqsUpTo(Texts, MaxCalls)

\* generate_batch up to its loop.
BatchStart(g, texts) ==
    /\ gpc = "idle"
    /\ batch_state = "none"
    /\ inst[g] > 0
    /\ Len(log) + Len(texts) <= MaxCalls
    /\ batch_state' = "running"
    /\ batch_gen' = g
    /\ batch_texts' = texts
    /\ batch_out' = <<>>
    /\ UNCHANGED <<cache, cache_file, inst, gpc, cur_gen, cur_text, chunks,
                   embeddings, calls, log>>
    /\ UNCHANGED notEmbedVars

\* generate_batch after its loop: return embeddings.
BatchReturn ==
    /\ gpc = "idle"
    /\ batch_state = "running"
    /\ Len(batch_out) = Len(batch_texts)
    /\ batch_state' = "returned"
    /\ UNCHANGED <<batch_gen, batch_texts, batch_out>>
    /\ UNCHANGED <<cache, cache_file, inst, gpc, cur_gen, cur_text, chunks,
                   embeddings, calls, log>>
    /\ UNCHANGED notEmbedVars

\* The caller of generate_batch has its answer or its exception.
BatchDone ==
    /\ batch_state \in {"returned", "raised"}
    /\ batch_state' = "none" /\ batch_gen' = "none"
    /\ batch_texts' = <<>> /\ batch_out' = <<>>
    /\ UNCHANGED <<cache, cache_file, inst, gpc, cur_gen, cur_text, chunks,
                   embeddings, calls, log>>
    /\ UNCHANGED notEmbedVars

\* One process at a time holds a generator on the cache path: it is
\* constructed, used, and constructed again after a restart.
Solo == {"g1"}

NextEmbed ==
    \/ \E g \in Solo : Construct(g)
    \/ \E g \in Solo, text \in Texts : GenerateStart(g, text)
    \/ \E resp \in Responses : ChunkCall(resp)
    \/ \E how \in SaveOutcomes : GenerateFinish(how)
    \/ \E g \in Solo, texts \in BatchInputs : BatchStart(g, texts)
    \/ BatchReturn
    \/ BatchDone

SpecEmbed == Init /\ [][NextEmbed]_vars

\* --------------------------------------------- claims on the generator
\* Calls i and j of the log are two embeds of one text on one generator
\* object, i the earlier.
SameGeneratorSameText(i, j) ==
    /\ i < j
    /\ log[i].gen = log[j].gen /\ log[i].inst = log[j].inst
    /\ log[i].text = log[j].text

HasFailure(entry) == \E k \in DOMAIN entry.calls : entry.calls[k].failed

\* C9: two embeds of the same text, of any length, on the same generator
\* return identical vectors and issue at most one remote call over the two
\* calls; the second is a cache hit that makes no remote call.
C9_AtMostOneRemoteCall ==
    \A i, j \in DOMAIN log :
        SameGeneratorSameText(i, j)
        => /\ log[i].kind = "returned" /\ log[j].kind = "returned"
           /\ log[j].vec = log[i].vec
           /\ Len(log[i].calls) + Len(log[j].calls) <= 1
           /\ log[j].calls = <<>>

\* C9 amended: two embeds of the same text on the same generator return
\* identical vectors and the second is a cache hit that makes no remote
\* call; the first makes at most one remote call per segment of the text,
\* which is at most one call when the text has at most 300 characters.
C9_SecondCallIsCacheHit ==
    \A i, j \in DOMAIN log :
        SameGeneratorSameText(i, j)
        => /\ log[i].kind = "returned" /\ log[j].kind = "returned"
           /\ log[j].vec = log[i].vec
           /\ log[j].calls = <<>>
           /\ Len(log[i].calls) <= Len(split_text(log[i].text, MaxChars))
           /\ Len(log[i].text) <= MaxChars => Len(log[i].calls) <= 1

C9_Witness ==
    \E i, j \in DOMAIN log :
        /\ SameGeneratorSameText(i, j)
        /\ Len(log[i].text) > MaxChars
        /\ Len(log[i].calls) = 2
        /\ log[j].calls = <<>> /\ log[j].vec = log[i].vec

\* What the call of entry returns when every failed request counts as the
\* zero vector.
WithZeroForFailures(entry) ==
    LET embs == [k \in DOMAIN entry.calls |->
                    IF entry.calls[k].failed THEN ZeroVector
                    ELSE entry.calls[k].answer]
    IN  IF Len(embs) = 1 THEN embs[1] ELSE MeanPool(embs)

\* C10: a failed remote call never reaches the caller as a failure; the
\* call counts the zero vector of 1024 coordinates for the failed request,
\* makes one request per segment and no second attempt, stores its result
\* under the key of the text, and a later embed of the same text on that
\* generator makes no remote call.
C10_FailureBecomesCachedZeroVector ==
    /\ \A i \in DOMAIN log : log[i].kind = "returned"
    /\ \A i \in DOMAIN log :
        HasFailure(log[i])
        => /\ log[i].vec = WithZeroForFailures(log[i])
           /\ log[i].vec.dim = Dim
           /\ [k \in DOMAIN log[i].calls |-> log[i].calls[k].input]
                = split_text(log[i].text, MaxChars)
           /\ inst[log[i].gen] = log[i].inst
              => /\ get_cache_key(log[i].text) \in DOMAIN cache[log[i].gen]
                 /\ cache[log[i].gen][get_cache_key(log[i].text)] = log[i].vec
           /\ \A j \in DOMAIN log :
                SameGeneratorSameText(i, j)
                => log[j].calls = <<>> /\ log[j].vec = log[i].vec

C10_Witness ==
    \E i, j \in DOMAIN log :
        /\ SameGeneratorSameText(i, j)
        /\ HasFailure(log[i])
        /\ log[i].vec = ZeroVector
        /\ log[j].kind = "returned" /\ log[j].calls = <<>>
        /\ log[j].vec = ZeroVector

\* The vectors a finished call worked with, one per request: the answer, or
\* the zero vector for a failed request.
VectorsOf(entry) ==
    [k \in DOMAIN entry.calls |->
        IF entry.calls[k].failed THEN ZeroVector ELSE entry.calls[k].answer]

\* v is the element-wise mean of the vectors embs.
IsMeanOf(v, embs) ==
    /\ \A k \in DOMAIN embs : embs[k].dim = v.dim
    /\ LET total == SumAt(embs, Len(embs))
       IN  v.at[1] * total[2] * Len(embs) = total[1] * v.at[2]

\* C11: an embed of an uncached text of more than 300 characters that the
\* chunker splits into n segments posts exactly the n segments, in order,
\* returns the element-wise mean of the n vectors, and adds exactly one
\* entry to the cache of its generator, under the key of the whole text;
\* no other key appears and no other entry changes.
C11_OneCallPerSegmentOneEntry ==
    [][\A how \in SaveOutcomes :
          (GenerateFinish(how) /\ Len(cur_text) > MaxChars)
          => LET g == cur_gen
                 key == get_cache_key(cur_text)
                 e == log'[Len(log')]
             IN  /\ [k \in DOMAIN e.calls |-> e.calls[k].input]
                      = split_text(cur_text, MaxChars)
                 /\ e.kind = "returned"
                 /\ IsMeanOf(e.vec, VectorsOf(e))
                 /\ key \notin DOMAIN cache[g]
                 /\ DOMAIN cache'[g] = DOMAIN cache[g] \cup {key}
                 /\ cache'[g][key] = e.vec
                 /\ \A k \in DOMAIN cache[g] : cache'[g][k] = cache[g][k]
                 /\ \A h \in Gens \ {g} : cache'[h] = cache[h]]_vars

C11_Witness ==
    \E i \in DOMAIN log :
        /\ Len(log[i].text) > MaxChars
        /\ Len(log[i].calls) = 2
        /\ ~HasFailure(log[i])
        /\ log[i].vec = [dim |-> Dim, at |-> <<1, 1>>]
        /\ inst[log[i].gen] = log[i].inst
        /\ DOMAIN cache[log[i].gen] = {get_cache_key(log[i].text)}

\* The log entry of the call generate_batch made for its i-th text, once
\* that call is finished.
BatchEntry(i) == log[Len(log) - Len(batch_out) + i]

\* C12: generate_batch embeds its texts one after the other in input order
\* and returns one vector per text in that order; a failed request gives
\* the item its zero-vector fallback and never ends the batch: no
\* exception leaves generate_batch, and it returns only when every text
\* has its vector.
C12_BatchInOrderNeverAborts ==
    /\ batch_state # "raised"
    /\ batch_state \in {"running", "returned"}
       => /\ Len(batch_out) <= Len(batch_texts)
          /\ Len(batch_out) <= Len(log)
          /\ \A i \in DOMAIN batch_out :
                /\ BatchEntry(i).gen = batch_gen
                /\ BatchEntry(i).text = batch_texts[i]
                /\ BatchEntry(i).kind = "returned"
                /\ batch_out[i] = BatchEntry(i).vec
                /\ HasFailure(BatchEntry(i))
                   => batch_out[i] = WithZeroForFailures(BatchEntry(i))
    /\ batch_state = "returned" => Len(batch_out) = Len(batch_texts)

C12_Witness ==
    /\ batch_state = "returned"
    /\ batch_texts = <<ShortText, LongText>>
    /\ HasFailure(BatchEntry(1))
    /\ batch_out[1] = ZeroVector
    /\ ~HasFailure(BatchEntry(2))
    /\ batch_out[2] = [dim |-> Dim, at |-> <<1, 1>>]

\* ------------------------------------------------ the chunker on its own
Alphabet == {"a", "b", "<U+3002>", "\n"}

\* Two sentences of 13 characters, the full stop included.
TwoSentences ==
    Rep("a", 12) \o <<"<U+3002>">> \o Rep("b", 12) \o <<"<U+3002>">>

\* The texts and max_chars the chunker is called with: every text of at
\* most MaxTextLen characters with every small max_chars, the two sentences
\* with max_chars = 20, and texts around the default max_chars.
SplitInputs ==
    (SeqsUpTo(Alphabet, MaxTextLen) \X (1..MaxSplitChars))
    \cup {<<TwoSentences, 20>>}
    \cup ({Rep("a", MaxChars), Rep("a", MaxChars + 1), LongText,
           Rep("a", MaxChars) \o <<"\n">>} \X {MaxChars})

InitSplit ==
    /\ Quiet
    /\ \E in \in SplitInputs :
          /\ sp_text = in[1] /\ sp_max = in[2]
          /\ sp_state = "called" /\ sp_chunks = <<>>

\* _split_text(text, max_chars)
SplitText ==
    /\ sp_state = "called"
    /\ sp_chunks' = split_text(sp_text, sp_max)
    /\ sp_state' = "returned"
    /\ UNCHANGED <<sp_text, sp_max>>
    /\ UNCHANGED notSplitVars

NextSplit == SplitText

SpecSplit == InitSplit /\ [][NextSplit]_vars

HasDelimiter(text) == \E i \in DOMAIN text : IsDelim(text[i])

\* C13: for a text of at most max_chars characters, sentence terminators
\* or not, the chunker returns exactly one chunk, the text itself.
C13_ShortTextOneChunk ==
    (sp_state = "returned" /\ Len(sp_text) <= sp_max)
    => sp_chunks = <<sp_text>>

C13_Witness ==
    /\ sp_state = "returned"
    /\ Len(sp_text) = sp_max
    /\ HasDelimiter(sp_text) /\ ~IsDelim(sp_text[1])
    /\ sp_chunks = <<sp_text>>

C15_ChunksReconstructText ==
    sp_state = "returned" => Join(sp_chunks) = sp_text

C15_Witness ==
    /\ sp_state = "returned"
    /\ Len(sp_chunks) >= 3
    /\ HasDelimiter(sp_text)
    /\ \E i, j \in DOMAIN sp_text : sp_text[i] = "a" /\ sp_text[j] = "b"
    /\ Join(sp_chunks) = sp_text

\* All characters of the chunk are delimiters, or none is: the chunk is one
\* piece of the split at the sentence delimiters.
SingleFragment(chunk) ==
    \/ \A i \in DOMAIN chunk : IsDelim(chunk[i])
    \/ \A i \in DOMAIN chunk : ~IsDelim(chunk[i])

C17_CacheDurableAcrossRestarts ==
    /\ \A i \in DOMAIN log :
          (log[i].kind = "returned" /\ inst[log[i].gen] = log[i].inst
           /\ gpc = "idle")
          => /\ cache_file.state = "ok"
             /\ get_cache_key(log[i].text) \in DOMAIN cache_file.data
             /\ cache_file.data[get_cache_key(log[i].text)] = log[i].vec
    /\ \A i, j \in DOMAIN log :
          (/\ i < j
           /\ log[i].gen = log[j].gen /\ log[i].inst < log[j].inst
           /\ log[i].text = log[j].text
           /\ log[i].kind = "returned")
          => log[j].calls = <<>> /\ log[j].vec = log[i].vec

\* An embed after a restart that had to ask the service again for a text
\* the generator before the restart had stored.
C17_RestartLosesEntry ==
    \E i, j \in DOMAIN log :
        /\ i < j
        /\ log[i].gen = log[j].gen /\ log[i].inst < log[j].inst
        /\ log[i].text = log[j].text
        /\ log[i].kind = "returned"
        /\ log[j].calls # <<>>

\* --------------------------------------- the keyword index on its own
\* delete_by_source with the DELETE on knowledge_meta left out.
FTS_delete_KeepMeta(rows, meta, source) ==
    [rows |-> SelectSeq(rows, LAMBDA r : r.source # source),
     meta |-> meta,
     count |-> Len(SelectSeq(rows, LAMBDA r : r.source = source))]

\* KnowledgeSearchFTS.delete_by_source: the rowids of the rows of the
\* source, the two DELETEs on them, the commit; count is their number.
FTS_delete_by_source(rows, meta, source) ==
    LET rowids == {rows[i].rowid : i \in {j \in DOMAIN rows : rows[j].source = source}}
    IN  IF rowids = {}
        THEN [rows |-> rows, meta |-> meta, count |-> 0]
        ELSE [rows |-> SelectSeq(rows, LAMBDA r : r.rowid \notin rowids),
              meta |-> SelectSeq(meta, LAMBDA m : m.rowid \notin rowids),
              count |-> Cardinality(rowids)]

\* KnowledgeSearchFTS.get_stats: SELECT COUNT(*) FROM knowledge_fts
FTS_get_stats(rows) == [total_documents |-> Len(rows)]

\* The documents handed to KnowledgeSearchFTS.add_documents in one call.
FtsDocs == {DocX, DocZ}
FtsBatches == SeqsUpTo(FtsDocs, MaxDocs) \ {<<>>}

\* The sources delete_by_source is called with: those of the documents,
\* and one no document has.
Sources == {d.source : d \in FtsDocs} \cup {<<"n", "o">>}

\* add_documents(batch).  The inserts of document failAt raise (0: none
\* does): the one into knowledge_fts, or, the row being in, the one into
\* knowledge_meta or json.dumps of the metadata before it.  The table holds
\* at most MaxDocs rows and hands out rowids up to MaxDocs + 1.
FtsAdd(batch, failAt, failMode) ==
    /\ Len(fts_rows) + Len(batch) <= MaxDocs
    /\ MaxRowid(fts_rows) + Len(batch) <= MaxDocs + 1
    /\ failAt <= Len(batch)
    /\ LET r == FTS_add_documents(fts_rows, meta_rows, batch, failAt, failMode)
       IN  /\ fts_rows' = r.rows
           /\ meta_rows' = r.meta
           /\ fts_ret' = [op |-> "add", count |-> r.count,
                          given |-> Len(batch), failed |-> failAt # 0,
                          before |-> FTS_get_stats(fts_rows).total_documents]
    /\ UNCHANGED <<collection, idx_ret>>
    /\ UNCHANGED notStoreVars

\* The process dies inside add_documents or delete_by_source, before the
\* commit: the engine rolls the open transaction back.
FtsCrash(during) ==
    /\ fts_ret' = [op |-> during, count |-> 0]
    /\ UNCHANGED <<fts_rows, meta_rows, collection, idx_ret>>
    /\ UNCHANGED notStoreVars

\* delete_by_source(source)
FtsDelete(source) ==
    /\ LET r == FTS_delete_by_source(fts_rows, meta_rows, source)
       IN  /\ fts_rows' = r.rows
           /\ meta_rows' = r.meta
           /\ fts_ret' = [op |-> "delete", count |-> r.count]
    /\ UNCHANGED <<collection, idx_ret>>
    /\ UNCHANGED notStoreVars

NextFts ==
    \/ \E batch \in FtsBatches, failAt \in 0..MaxDocs, failMode \in {"fts", "meta"} :
            FtsAdd(batch, failAt, failMode)
    \/ \E during \in {"add crashed", "delete crashed"} : FtsCrash(during)
    \/ \E source \in Sources : FtsDelete(source)

SpecFts == Init /\ [][NextFts]_vars

MetaFor(row) == {j \in DOMAIN meta_rows : meta_rows[j].rowid = row.rowid}

\* C18: whatever add_documents and delete_by_source calls were made, a
\* failed insert and a crash inside a call included, every row of
\* knowledge_fts has exactly one record of knowledge_meta with its rowid,
\* and every record of knowledge_meta has its row.
C18_RowsAndMetaOneToOne ==
    /\ \A i \in DOMAIN fts_rows : Cardinality(MetaFor(fts_rows[i])) = 1
    /\ \A j \in DOMAIN meta_rows :
          \E i \in DOMAIN fts_rows : fts_rows[i].rowid = meta_rows[j].rowid

\* A committed row of knowledge_fts without a record in knowledge_meta.
C18_RowWithoutMeta ==
    \E i \in DOMAIN fts_rows : MetaFor(fts_rows[i]) = {}

\* The queries a search after a delete is made with: one for each content.
FtsQueries == {d.content : d \in FtsDocs}

RowidsOfSource(source) ==
    {fts_rows[i].rowid : i \in {j \in DOMAIN fts_rows : fts_rows[j].source = source}}

SearchFindsSource(rows, meta, source) ==
    \E q \in FtsQueries :
        LET r == FTS_search(rows, meta, q, MaxDocs, FALSE, FALSE)
        IN  \E i \in DOMAIN r.val : r.val[i].source = source

\* C19: delete_by_source(s) removes every row of knowledge_fts whose source
\* is s and the knowledge_meta records of those rows, and returns how many
\* rows that was; the rows of other sources and their records stay as they
\* were, in order; a search on the tables it leaves finds nothing of source
\* s; when no row has source s it returns 0 and changes neither table.
C19_DeleteBySourceRemovesExactlyTheSource ==
    [][\A source \in Sources :
        FtsDelete(source) =>
            LET gone == RowidsOfSource(source)
            IN  /\ fts_rows' = SelectSeq(fts_rows, LAMBDA r : r.source # source)
                /\ meta_rows' = SelectSeq(meta_rows, LAMBDA m : m.rowid \notin gone)
                /\ fts_ret'.count = Cardinality(gone)
                /\ ~SearchFindsSource(fts_rows', meta_rows', source)
                /\ gone = {} => /\ fts_ret'.count = 0
                                /\ UNCHANGED <<fts_rows, meta_rows>>]_vars

\* A delete removed rows and their records and left rows of another source
\* with theirs.
C19_Witness ==
    /\ fts_ret.op = "delete"
    /\ fts_ret.count >= 1
    /\ fts_rows # <<>>
    /\ \A i \in DOMAIN fts_rows : MetaFor(fts_rows[i]) # {}

\* ---------------------------------------- the vector index on its own
\* The documents handed to KnowledgeIndex.add_documents in one call.
IndexBatches == SeqsUpTo({DocX, DocZ}, MaxDocs)

\* add_documents(batch); stored: by how many documents the collection grew.
IndexAdd(batch, policy) ==
    /\ Len(collection) + Len(batch) <= MaxDocs
    /\ LET added == KnowledgeIndex_add_documents(collection, batch, policy)
       IN  /\ collection' = added.val
           /\ idx_ret' = [op |-> "add", kind |-> added.kind, error |-> added.error,
                          count |-> added.count,
                          stored |-> Len(added.val) - Len(collection)]
    /\ UNCHANGED <<fts_rows, meta_rows, fts_ret>>
    /\ UNCHANGED notStoreVars

NextIndex == \E batch \in IndexBatches, policy \in AddPolicies : IndexAdd(batch, policy)

SpecIndex == Init /\ [][NextIndex]_vars

\* C20: after any sequence of KnowledgeIndex.add_documents calls no two
\* stored documents have the same id, no call ends in an id collision with a
\* document stored before, and a call that returns returns the number of
\* documents it added to the collection.
C20_IdsUniqueAcrossCalls ==
    /\ \A i, j \in DOMAIN collection :
          i # j => collection[i].id # collection[j].id
    /\ idx_ret.op = "add" =>
          /\ idx_ret.error # "DuplicateID"
          /\ idx_ret.kind = "ok" => idx_ret.count = idx_ret.stored

\* A second call has met the ids of the first: two stored documents share an
\* id, or the call was refused, or it reported documents it did not store.
C20_SecondCallCollides ==
    /\ idx_ret.op = "add"
    /\ collection # <<>>
    /\ \/ \E i, j \in DOMAIN collection :
            i # j /\ collection[i].id = collection[j].id
       \/ idx_ret.error = "DuplicateID"
       \/ idx_ret.kind = "ok" /\ idx_ret.count > idx_ret.stored

\* ------------------------------------ ingestion (knowledge_ingest.py)
\* self.supported_extensions
SupportedExtensions == {<<".", "m", "d">>, <<".", "t", "x", "t">>,
                        <<".", "m", "a", "r", "k", "d", "o", "w", "n">>}

\* The characters str.strip() removes.
Whitespace == {" ", "\n", "\t"}

RECURSIVE LStripWs(_)
LStripWs(s) == IF s # <<>> /\ Head(s) \in Whitespace THEN LStripWs(Tail(s)) ELSE s

\* str.strip()
StripWs(s) == Reverse(LStripWs(Reverse(LStripWs(s))))

\* The paragraph separator "\n\n".
ParagraphBreak == <<"\n", "\n">>

\* content.split('\n\n'): the separators are found left to right and do not
\* overlap; a text without one is a single paragraph.
RECURSIVE SplitParagraphs(_)
SplitParagraphs(content) ==
    LET at == {i \in 1..(Len(content) - 1) :
                  content[i] = "\n" /\ content[i + 1] = "\n"}
    IN  IF at = {} THEN <<content>>
        ELSE LET k == CHOOSE i \in at : \A j \in at : i <= j
             IN  <<SubSeq(content, 1, k - 1)>>
                    \o SplitParagraphs(SubSeq(content, k + 2, Len(content)))

\* The packing loop of _read_and_chunk from paragraph i on, with every
\* chunk stripped before it is appended.
RECURSIVE PackParagraphs(_, _, _, _, _)
PackParagraphs(paragraphs, i, current_chunk, out, chunk_size) ==
    IF i > Len(paragraphs)
    THEN IF StripWs(current_chunk) # <<>>
         THEN Append(out, StripWs(current_chunk))
         ELSE out
    ELSE LET paragraph == paragraphs[i]
         IN  IF Len(current_chunk) + Len(paragraph) < chunk_size
             THEN PackParagraphs(paragraphs, i + 1,
                                 current_chunk \o paragraph \o ParagraphBreak,
                                 out, chunk_size)
             ELSE PackParagraphs(paragraphs, i + 1, paragraph \o ParagraphBreak,
                                 IF current_chunk # <<>>
                                 THEN Append(out, StripWs(current_chunk))
                                 ELSE out,
                                 chunk_size)

\* KnowledgeIngest._read_and_chunk; a file none of the three encodings
\* decodes raises ValueError.
read_and_chunk(file, chunk_size) ==
    IF ~file.decodable THEN Raise("ValueError: cannot decode")
    ELSE Ok(PackParagraphs(SplitParagraphs(file.content), 1, <<>>, <<>>, chunk_size))

\* No caller metadata: None, or the empty mapping.
NoMetadata == [k \in {} |-> 0]

\* The item loop of import_file and import_text: the caller's metadata is
\* unpacked after source, chunk_index and total_chunks.
ItemsOf(item_chunks, source, metadata) ==
    [i \in DOMAIN item_chunks |->
        [content |-> item_chunks[i],
         metadata |-> metadata @@ [source |-> source,
                                   chunk_index |-> i - 1,
                                   total_chunks |-> Len(item_chunks)]]]

\* str(file_path)
PathOf(file) == file.stem \o file.suffix

\* import_file with the size check after the extension check.
import_file_ExtensionFirst(cfg, file, metadata) ==
    IF ~file.exists THEN Raise("FileNotFoundError")
    ELSE IF Lower(file.suffix) \notin SupportedExtensions
    THEN Raise("ValueError: unsupported format")
    ELSE IF file.st_size > cfg.max_file_size_mb * Mebibyte
    THEN Raise("ValueError: file too large")
    ELSE LET r == read_and_chunk(file, cfg.chunk_size)
         IN  IF r.kind = "raise" THEN r
             ELSE Ok(ItemsOf(r.val, PathOf(file), metadata))

\* KnowledgeIngest.import_file.  st_size / (1024 * 1024) is exact for every
\* size a file can have, so the comparison is the one on integers.
import_file(cfg, file, metadata) ==
    IF ~file.exists THEN Raise("FileNotFoundError")
    ELSE IF file.st_size > cfg.max_file_size_mb * Mebibyte
    THEN Raise("ValueError: file too large")
    ELSE IF Lower(file.suffix) \notin SupportedExtensions
    THEN Raise("ValueError: unsupported format")
    ELSE LET r == read_and_chunk(file, cfg.chunk_size)
         IN  IF r.kind = "raise" THEN r
             ELSE Ok(ItemsOf(r.val, PathOf(file), metadata))

TextInput == <<"t", "e", "x", "t", "_", "i", "n", "p", "u", "t">>

\* KnowledgeIngest.import_text; source: a string, empty when the caller gave
\* none (source or "text_input" treats None and "" alike).
import_text(cfg, text, metadata, source) ==
    IF Len(text) > cfg.chunk_size * TextFactor THEN Raise("ValueError: text too long")
    ELSE Ok(ItemsOf(<<text>>,
                    IF source = <<>> THEN TextInput ELSE source,
                    metadata))

\* The constructor arguments of KnowledgeIngest: the defaults, a size limit
\* of 0 MB and the small chunk sizes.
MaxFileSizes == {0, DefaultMaxFileSizeMb}
ChunkSizes == (0..MaxChunkSize) \cup {DefaultChunkSize}
IngestConfigs == [max_file_size_mb : MaxFileSizes, chunk_size : ChunkSizes]

IngestAlphabet == {"a", " ", "\n"}
Md == <<".", "m", "d">>
Pdf == <<".", "p", "d", "f">>
Suffixes == SupportedExtensions \cup {<<".", "M", "D">>, Pdf, <<>>}

\* A file as import_file sees it: does the path exist, the size stat
\* reports, can the bytes be decoded, and the text read from it.
File(suffix, exists, st_size, decodable, content) ==
    [stem |-> <<"f">>, suffix |-> suffix, exists |-> exists, st_size |-> st_size,
     decodable |-> decodable, content |-> content]

\* Markdown files of every content up to MaxFileLen characters.
TextFiles == {File(Md, TRUE, Len(c), TRUE, c) : c \in SeqsUpTo(IngestAlphabet, MaxFileLen)}

\* Files of every suffix, there and not there, empty and not; files one
\* byte over the default size limit, whose text is never read; a file no
\* encoding decodes.
OtherFiles ==
    {File(x, e, Len(c), TRUE, c) : x \in Suffixes, e \in BOOLEAN, c \in {<<>>, <<"a">>}}
    \cup {File(x, TRUE, DefaultMaxFileSizeMb * Mebibyte + 1, TRUE, <<>>) : x \in {Md, Pdf}}
    \cup {File(Md, TRUE, 1, FALSE, <<>>)}

Files == TextFiles \cup OtherFiles

\* The metadata a caller passes: none, a key of its own, and the keys the
\* item loop sets itself.
Metadatas == {NoMetadata,
              [title |-> <<"t">>],
              [chunk_index |-> 7],
              [total_chunks |-> 0],
              [source |-> <<"o">>]}

\* The texts given to import_text: short ones, and for every small chunk
\* size the longest text accepted and the shortest refused.
IngestTexts ==
    SeqsUpTo(IngestAlphabet, 2)
    \cup {Rep("a", TextFactor * c) : c \in 0..MaxChunkSize}
    \cup {Rep("a", TextFactor * c + 1) : c \in 0..MaxChunkSize}

TextSources == {<<>>, <<"o">>}

\* An import call has returned or raised and its caller has not yet taken
\* the outcome.
ImportPending == ing_ret.op \in {"import_file", "import_text"}

\* KnowledgeIngest(max_file_size_mb, chunk_size)
IngestConstruct(cfg) ==
    /\ ~ImportPending
    /\ ingest' = cfg
    /\ ing_ret' = [op |-> "construct"]
    /\ UNCHANGED notIngestVars

\* import_file(file, metadata).  The text of a file is read only when its
\* size is the size of the text the model holds for it.
ImportFile(file, metadata) ==
    /\ ~ImportPending
    /\ \/ ~file.exists
       \/ file.st_size > ingest.max_file_size_mb * Mebibyte
       \/ file.st_size = Len(file.content)
    /\ LET r == import_file(ingest, file, metadata)
       IN  ing_ret' = [op |-> "import_file", file |-> file, metadata |-> metadata,
                       kind |-> r.kind, error |-> r.error, items |-> r.val]
    /\ UNCHANGED ingest
    /\ UNCHANGED notIngestVars

\* import_text(text, metadata, source)
ImportText(text, metadata, source) ==
    /\ ~ImportPending
    /\ LET r == import_text(ingest, text, metadata, source)
       IN  ing_ret' = [op |-> "import_text", text |-> text, metadata |-> metadata,
                       source |-> source,
                       kind |-> r.kind, error |-> r.error, items |-> r.val]
    /\ UNCHANGED ingest
    /\ UNCHANGED notIngestVars

\* The caller takes the items, or catches the exception.
ImportTaken ==
    /\ ImportPending
    /\ ing_ret' = [op |-> "taken"]
    /\ UNCHANGED ingest
    /\ UNCHANGED notIngestVars

NextIngest ==
    \/ \E cfg \in IngestConfigs : IngestConstruct(cfg)
    \/ ImportTaken
    \/ \E file \in Files, metadata \in Metadatas : ImportFile(file, metadata)
    \/ \E text \in IngestTexts, metadata \in Metadatas, source \in TextSources :
            ImportText(text, metadata, source)

SpecIngest == Init /\ [][NextIngest]_vars

ExtensionSupported(file) ==
    \E x \in SupportedExtensions :
        /\ Len(x) = Len(file.suffix)
        /\ \A i \in DOMAIN x : LowerChar(file.suffix[i]) = x[i]

TooLarge(file) == file.st_size > ingest.max_file_size_mb * Mebibyte

Refused(e) == ing_ret.kind = "raise" /\ ing_ret.error = e /\ ing_ret.items = <<>>

\* C21: import_file raises FileNotFoundError for a path that does not exist,
\* whatever its name; for a file that exists and is larger than
\* max_file_size_mb it raises the ValueError of the size check, whatever its
\* extension; for a file within the size limit whose extension, lower-cased,
\* is none of .md, .txt, .markdown it raises the ValueError of the extension
\* check; import_text raises ValueError for a text longer than
\* chunk_size * 10.  A call that raises returns no items.
C21_InvalidInputRaises ==
    /\ ing_ret.op = "import_file" =>
          LET file == ing_ret.file
          IN  /\ ~file.exists => Refused("FileNotFoundError")
              /\ file.exists /\ TooLarge(file) => Refused("ValueError: file too large")
              /\ file.exists /\ ~TooLarge(file) /\ ~ExtensionSupported(file)
                    => Refused("ValueError: unsupported format")
    /\ ing_ret.op = "import_text" =>
          (Len(ing_ret.text) > ingest.chunk_size * TextFactor
              => Refused("ValueError: text too long"))

\* A file too large and of an unsupported extension was refused for its
\* size.
C21_Witness ==
    /\ ing_ret.op = "import_file"
    /\ ing_ret.file.exists
    /\ ing_ret.file.suffix = Pdf
    /\ ing_ret.file.st_size = ingest.max_file_size_mb * Mebibyte + 1
    /\ ing_ret.error = "ValueError: file too large"

\* C22: the items import_file and import_text return are in document order,
\* item number i (from 0) has chunk_index i and total_chunks the number of
\* items, and source the path of the file, or the source given to
\* import_text, or text_input; every key of the caller's metadata is in the
\* metadata of every item; and this whatever metadata the caller passed.
C22_ChunkIndexAndSource ==
    ing_ret.op \in {"import_file", "import_text"} /\ ing_ret.kind = "ok" =>
        \A i \in DOMAIN ing_ret.items :
            LET m == ing_ret.items[i].metadata
            IN  /\ m["chunk_index"] = i - 1
                /\ m["total_chunks"] = Len(ing_ret.items)
                /\ 0 <= m["chunk_index"] /\ m["chunk_index"] < m["total_chunks"]
                /\ m["source"] = IF ing_ret.op = "import_file" THEN PathOf(ing_ret.file)
                                 ELSE IF ing_ret.source = <<>> THEN TextInput
                                 ELSE ing_ret.source
                /\ \A k \in DOMAIN ing_ret.metadata : m[k] = ing_ret.metadata[k]

\* The caller's chunk_index has replaced the position of the item.
C22_CallerKeyOverrides ==
    /\ ing_ret.op = "import_file"
    /\ ing_ret.kind = "ok"
    /\ \E i \in DOMAIN ing_ret.items :
          ing_ret.items[i].metadata["chunk_index"] # i - 1

\* C28: every item import_file returns has content that is not empty.
C28_ChunksNonEmpty ==
    ing_ret.op = "import_file" /\ ing_ret.kind = "ok" =>
        \A i \in DOMAIN ing_ret.items : ing_ret.items[i].content # <<>>

\* import_file returned an item with empty content.
C28_EmptyChunk ==
    /\ ing_ret.op = "import_file"
    /\ ing_ret.kind = "ok"
    /\ \E i \in DOMAIN ing_ret.items : ing_ret.items[i].content = <<>>

\* ------------------------------------------- highlighting on its own
\* The stored contents the engine returns a row for.
HlContents == SeqsUpTo({"h", "i", "H"}, MaxContentLen)

\* The words of a query: long enough or not, in either letter case, with
\* punctuation around them, one inside another, one overlapping another.
HlWords == {<<"h", "i">>, <<"H", "I">>, <<"i", "h">>, <<"h">>,
            <<"h", "i", ".">>, <<".", "h", ".">>, <<"h", "i", "h">>}

\* The queries: one word, or two separated by a blank.
HlQueries == HlWords \cup {v \o <<" ">> \o w : v, w \in HlWords}

\* Lines 160-171 of search for one row the engine returned.
FormatRow(content, q, highlight) ==
    /\ hl_ret.op # "search"
    /\ hl_ret' = [op |-> "search", stored |-> content, query |-> q,
                  highlight |-> highlight,
                  content |-> ResultContent(content, q, highlight)]
    /\ UNCHANGED notHighlightVars

\* results.append(result): the loop goes on to the next row.
RowAppended ==
    /\ hl_ret.op = "search"
    /\ hl_ret' = [op |-> "appended"]
    /\ UNCHANGED notHighlightVars

NextHighlight ==
    \/ \E content \in HlContents, q \in HlQueries, highlight \in BOOLEAN :
            FormatRow(content, q, highlight)
    \/ RowAppended

SpecHighlight == Init /\ [][NextHighlight]_vars

\* The query tokens that count: stripped of punctuation, two characters or
\* more, letter case folded.
Significant(q) ==
    {Lower(Strip(w)) : w \in {v \in {Split(q)[i] : i \in DOMAIN Split(q)} : Len(Strip(v)) >= 2}}

\* Where token t occurs in text s, letter case folded.
OccurrencesOf(t, s) ==
    {i \in 1..(Len(s) - Len(t) + 1) : Lower(SubSeq(s, i, i + Len(t) - 1)) = t}

\* The number of characters of r before position j that are not markers.
LettersBefore(r, j) == Cardinality({k \in 1..(j - 1) : r[k] # "*"})

Marker == <<"*", "*">>

\* In r the n characters of s from position i on stand between two markers.
WrappedAt(r, s, i, n) ==
    \E j \in 1..Len(r) :
        /\ LettersBefore(r, j) = i - 1
        /\ j + n + 3 <= Len(r)
        /\ SubSeq(r, j, j + 1) = Marker
        /\ SubSeq(r, j + 2, j + n + 1) = SubSeq(s, i, i + n - 1)
        /\ SubSeq(r, j + n + 2, j + n + 3) = Marker

\* The text with the leftmost non-overlapping occurrences of t marked once.
RECURSIVE MarkedOnce(_, _)
MarkedOnce(s, t) ==
    IF Len(s) < Len(t) THEN s
    ELSE IF Lower(SubSeq(s, 1, Len(t))) = t
         THEN Marker \o SubSeq(s, 1, Len(t)) \o Marker
                \o MarkedOnce(SubSeq(s, Len(t) + 1, Len(s)), t)
         ELSE <<Head(s)>> \o MarkedOnce(Tail(s), t)

\* C23: with highlighting off the content returned is the stored content;
\* with highlighting on it is the stored content with markers added, in
\* which every occurrence of every significant query token stands between
\* two markers; a query with one distinct significant token marks its
\* occurrences once, and a query with none changes nothing.
C23_EveryOccurrenceWrapped ==
    hl_ret.op = "search" =>
        LET s == hl_ret.stored
            r == hl_ret.content
            toks == Significant(hl_ret.query)
        IN  IF ~hl_ret.highlight THEN r = s
            ELSE /\ SelectSeq(r, LAMBDA c : c # "*") = s
                 /\ \A t \in toks : \A i \in OccurrencesOf(t, s) :
                        WrappedAt(r, s, i, Len(t))
                 /\ toks = {} => r = s
                 /\ \A t \in toks : toks = {t} => r = MarkedOnce(s, t)

\* A token given twice was marked twice, or an occurrence of a token was
\* left unmarked because another token's markers were put inside it.
C23_MarkedTwiceOrMissed ==
    /\ hl_ret.op = "search"
    /\ hl_ret.highlight
    /\ \E t \in Significant(hl_ret.query) :
          \/ Significant(hl_ret.query) = {t} /\ hl_ret.content # MarkedOnce(hl_ret.stored, t)
          \/ \E i \in OccurrencesOf(t, hl_ret.stored) :
                ~WrappedAt(hl_ret.content, hl_ret.stored, i, Len(t))

\* ------------------------------------------------ the orchestrator again
CeilHalf(l) == (l + 1) \div 2

\* C24: a hybrid search whose clamped limit L is between 1 and 100 has
\* asked the vector index once, for ceil(L/2) + 1 results, and the keyword
\* search once, for ceil(L/2) + 1 results.
C24_RequestsCeilHalfPlusOne ==
    HybridDone /\ limit \in 1..SearchCeiling =>
        /\ vecReq = <<CeilHalf(limit) + 1>>
        /\ kwReq = <<CeilHalf(limit) + 1>>

\* A hybrid search with an odd limit asked each index for one result fewer.
C24_OddLimitAsksFewer ==
    /\ HybridDone
    /\ limit % 2 = 1
    /\ vecReq = <<CeilHalf(limit)>>
    /\ kwReq = <<CeilHalf(limit)>>

SearchDone == pc = "Done" /\ op = "search" /\ Len(query) <= MaxQueryLen

EmbeddingGiven == query_embedding \notin {"None", "Empty"}

\* C25: a finished search that asked for hybrid and gave a query embedding
\* has queried the vector index and the keyword index; one that gave an
\* embedding without asking for hybrid has queried the vector index and not
\* the keyword index; one that gave no embedding, or an empty one, has not
\* queried the vector index.
C25_ModesQueryTheirIndexes ==
    SearchDone =>
        /\ use_hybrid /\ EmbeddingGiven => vecReq # <<>> /\ ftsReq # <<>>
        /\ ~use_hybrid /\ EmbeddingGiven =>
              vecReq # <<>> /\ kwReq = <<>> /\ ftsReq = <<>>
        /\ ~EmbeddingGiven => vecReq = <<>>

\* A hybrid search is over: it called _keyword_search and the keyword index
\* was never queried.
C25_HybridWithoutKeywordIndex ==
    /\ SearchDone
    /\ use_hybrid /\ EmbeddingGiven
    /\ vecReq # <<>> /\ kwReq # <<>>
    /\ ftsReq = <<>>

\* _hybrid_search is straight-line code on one thread and the calls it makes
\* on the indexes return or raise: a step that can be taken is taken.
Fairness ==
    /\ WF_vars(\E fail \in BOOLEAN : SemanticAttempt(fail))
    /\ WF_vars(\E down \in BOOLEAN : KeywordAttempt(down))
    /\ WF_vars(Merge)

SpecFair == Init /\ [][Next]_vars /\ Fairness

InHybrid == pc \in {"SemanticAttempt", "KeywordAttempt", "Merge"}

\* One step of a hybrid search: it is entered at the semantic attempt, by
\* search; the keyword attempt follows the semantic attempt, failed or not,
\* and nothing else; Merge follows the keyword attempt and nothing else; Done
\* follows Merge; each attempt has been made once when Merge starts.
HybridStep ==
    /\ pc' = "SemanticAttempt" /\ pc # "SemanticAttempt" =>
          pc = "idle" /\ vecReq' = <<>> /\ kwReq' = <<>>
    /\ pc = "SemanticAttempt" /\ pc' # pc =>
          pc' = "KeywordAttempt" /\ Len(vecReq') = 1 /\ kwReq' = <<>>
    /\ pc' = "KeywordAttempt" /\ pc # pc' => pc = "SemanticAttempt"
    /\ pc = "KeywordAttempt" /\ pc' # pc =>
          pc' = "Merge" /\ Len(vecReq') = 1 /\ Len(kwReq') = 1
    /\ pc' = "Merge" /\ pc # pc' => pc = "KeywordAttempt"
    /\ pc = "Merge" /\ pc' # pc =>
          pc' = "Done" /\ outcome' = "returned" /\ UNCHANGED <<vecReq, kwReq>>

\* C26: every hybrid search goes SemanticAttempt, KeywordAttempt, Merge,
\* Done in this order, makes the keyword attempt after the semantic attempt
\* whether that one failed or not, merges once after both attempts, and
\* reaches Done.
C26_HybridRunsToDone ==
    /\ [][HybridStep]_vars
    /\ InHybrid ~> pc = "Done"

\* A hybrid search whose semantic attempt failed made its keyword attempt
\* and is done.
C26_Witness ==
    /\ HybridDone
    /\ semRaised
    /\ Len(vecReq) = 1 /\ Len(kwReq) = 1

\* ------------------------------------- two writers of one cache file
\* Two generators on the same cache path, each making single embed calls.
NextWriters ==
    \/ \E g \in Gens : Construct(g)
    \/ \E g \in Gens, text \in Texts : GenerateStart(g, text)
    \/ \E resp \in Responses : ChunkCall(resp)
    \/ \E how \in SaveOutcomes : GenerateFinish(how)

SpecWriters == Init /\ [][NextWriters]_vars

\* C27: a put whose write goes through leaves the file equal to the map of
\* the generator that wrote, whatever the file held: an entry of the file
\* the writer never loaded and did not put itself is not in the file after
\* the write.
C27_LastWriterWins ==
    [][GenerateFinish("ok") =>
          /\ cache_file'.state = "ok"
          /\ cache_file'.data = cache'[cur_gen]
          /\ \A key \in DOMAIN load_cache(cache_file) :
                (key \notin DOMAIN cache[cur_gen] /\ key # get_cache_key(cur_text))
                    => key \notin DOMAIN cache_file'.data]_vars

\* Two generators loaded the empty file; the first put one text and the
\* second another; the file is the map of the second and the entry of the
\* first is gone from it.
C27_Witness ==
    /\ Len(log) = 2
    /\ log[1].gen # log[2].gen
    /\ log[1].text # log[2].text
    /\ log[1].kind = "returned" /\ log[2].kind = "returned"
    /\ log[1].calls # <<>> /\ log[2].calls # <<>>
    /\ cache_file.state = "ok"
    /\ cache_file.data = cache[log[2].gen]
    /\ get_cache_key(log[1].text) \in DOMAIN cache[log[1].gen]
    /\ get_cache_key(log[1].text) \notin DOMAIN cache_file.data
    /\ get_cache_key(log[2].text) \in DOMAIN cache_file.data

\* C29: after add_documents the index's total_documents has grown by the
\* count the call returned, and that count is the number of documents given
\* less the one whose insertion failed, if one did: a failed document adds
\* no row and stops none of the others.
C29_CountIsRowsAdded ==
    fts_ret.op = "add" =>
        /\ FTS_get_stats(fts_rows).total_documents = fts_ret.before + fts_ret.count
        /\ fts_ret.count = fts_ret.given - (IF fts_ret.failed THEN 1 ELSE 0)

\* add_documents returned a count smaller than the number of rows it added.
C29_RowNotCounted ==
    /\ fts_ret.op = "add"
    /\ fts_ret.failed
    /\ FTS_get_stats(fts_rows).total_documents > fts_ret.before + fts_ret.count

\* --------------------------------------- gateway client (gateway_client.py)
Messages == {"m1", "m2"}

\* How the stream of a request ends: the done signal, an error signal, the
\* connection closed abnormally (the iteration raises ConnectionClosed), or
\* closed normally (the iteration just ends).
StreamEnds == {"done", "error", "closed abnormally", "closed normally"}

GwRet(name, kind, e) ==
    [op |-> name, kind |-> kind, error |-> e,
     was_connected |-> connected /\ websocket # "None", sent_before |-> Len(sent)]

\* connect(): websockets.connect succeeds (ok) or raises.
GwConnect(ok) ==
    /\ IF ok
       THEN /\ websocket' = "ws"
            /\ link' = "open"
            /\ connected' = TRUE
            /\ gw_ret' = GwRet("connect", "returned True", "none")
       ELSE /\ connected' = FALSE
            /\ gw_ret' = GwRet("connect", "returned False", "none")
            /\ UNCHANGED <<websocket, link>>
    /\ UNCHANGED sent
    /\ UNCHANGED notGatewayVars

\* disconnect()
GwDisconnect ==
    /\ IF websocket # "None"
       THEN /\ websocket' = "None"
            /\ link' = "none"
            /\ connected' = FALSE
       ELSE UNCHANGED <<websocket, link, connected>>
    /\ gw_ret' = GwRet("disconnect", "returned", "none")
    /\ UNCHANGED sent
    /\ UNCHANGED notGatewayVars

\* The gateway or the network closes the connection while no call runs.
GwConnectionClosed ==
    /\ link = "open"
    /\ link' = "closed"
    /\ gw_ret' = GwRet("connection closed", "event", "none")
    /\ UNCHANGED <<websocket, connected, sent>>
    /\ UNCHANGED notGatewayVars

\* send_message(message), consumed to its end.  The guard raises
\* ConnectionError; websocket.send on a closed connection raises
\* ConnectionClosed before the try is entered; then the stream ends in one
\* of the four ways.
GwSendMessage(message, ends) ==
    /\ Len(sent) < MaxSent
    /\ IF ~connected \/ websocket = "None"
       THEN /\ gw_ret' = GwRet("send_message", "raised", "ConnectionError")
            /\ UNCHANGED <<websocket, connected, link, sent>>
       ELSE IF link = "closed"
       THEN /\ gw_ret' = GwRet("send_message", "raised", "ConnectionClosed")
            /\ UNCHANGED <<websocket, connected, link, sent>>
       ELSE /\ sent' = Append(sent, message)
            /\ CASE ends = "done" ->
                      /\ gw_ret' = GwRet("send_message", "returned", "none")
                      /\ UNCHANGED <<websocket, connected, link>>
                 [] ends = "error" ->
                      /\ gw_ret' = GwRet("send_message", "raised", "Exception")
                      /\ UNCHANGED <<websocket, connected, link>>
                 [] ends = "closed abnormally" ->
                      /\ connected' = FALSE
                      /\ link' = "closed"
                      /\ gw_ret' = GwRet("send_message", "raised", "ConnectionClosed")
                      /\ UNCHANGED websocket
                 [] OTHER ->
                      /\ link' = "closed"
                      /\ gw_ret' = GwRet("send_message", "returned", "none")
                      /\ UNCHANGED <<websocket, connected>>
    /\ UNCHANGED notGatewayVars

NextGateway ==
    \/ \E ok \in BOOLEAN : GwConnect(ok)
    \/ GwDisconnect
    \/ GwConnectionClosed
    \/ \E message \in Messages, ends \in StreamEnds : GwSendMessage(message, ends)

SpecGateway == Init /\ [][NextGateway]_vars

\* C30: connected implies a websocket is held; a send_message on a client
\* that was not connected raised ConnectionError and sent nothing; a connect
\* that failed left connected false; a send_message that met the connection
\* closed left connected false; a disconnect left connected false and no
\* websocket held.
C30_ConnectionState ==
    /\ connected => websocket # "None"
    /\ gw_ret.op = "send_message" /\ ~gw_ret.was_connected =>
          /\ gw_ret.kind = "raised" /\ gw_ret.error = "ConnectionError"
          /\ Len(sent) = gw_ret.sent_before
    /\ gw_ret.op = "connect" /\ gw_ret.kind = "returned False" => ~connected
    /\ gw_ret.op = "send_message" /\ link = "closed" => ~connected
    /\ gw_ret.op = "disconnect" => ~connected /\ websocket = "None"

\* send_message found the connection closed and the client still says it is
\* connected.
C30_ClosedButConnected ==
    /\ gw_ret.op = "send_message"
    /\ gw_ret.error = "ConnectionClosed"
    /\ link = "closed"
    /\ connected

====
